---------------------------- MODULE Spec2Model ----------------------------
(***************************************************************************)
(* A model of the 6502 instruction-execution core in src/src/cpu.ts:       *)
(* the CPU object's fields, the opcode table built by initOpCodeMap, the   *)
(* address resolver, the instruction handlers and runop, the step.         *)
(*                                                                         *)
(* Numbers are JavaScript numbers restricted to the integers the code can  *)
(* produce; the bitwise operators work on 32-bit two's-complement values   *)
(* as in JavaScript.  An out-of-range typed-array read yields Undefined.   *)
(***************************************************************************)
EXTENDS Integers, Sequences, FiniteSets, TLC

VARIABLES
    cpu,        \* the CPU object's registers, flags and memory (cpu.ts 51-67)
    opCodeMap,  \* the CPU object's opcode table (cpu.ts 68)
    ops,        \* the program bytes handed to the constructor (cpu.ts 70)
    ret         \* the last call made on the CPU, its outcome and the state before it

vars == <<cpu, opCodeMap, ops, ret>>

---------------------------------------------------------------------------
(* Bounds of the model.                                                    *)

\* The longest program (in bytes) handed to the constructor.
MaxOps == 4

\* Opcode bytes a program draws for its even positions (where the two-byte
\* steps of a run land) and operand bytes for its odd positions.
ProgOpcodes ==
    { 105, 41, 10, 201, 24, 0,               \* ADC# AND# ASL-A CMP# CLC BRK
      144, 176, 240, 208, 48, 16, 80, 112,   \* BCC BCS BEQ BNE BMI BPL BVC BVS
      101, 109, 36, 224, 192,                \* ADC-zp ADC-abs BIT-zp CPX# CPY#
      216, 88, 184,                          \* CLD CLI CLV
      2 }                                    \* no table entry
ProgOperands == { 2, 5, 254 }

\* Byte values drawn when a handler is applied to an operand directly.
TestBytes == { 0, 1, 5, 16, 63, 64, 80, 127, 128, 129, 176, 208, 255 }

\* Program counters drawn when a handler is applied directly.
TestPCs == { 32770, 250 }

\* Index register values, raw arguments and memory pages drawn when address
\* is applied directly.
TestIndexes == { 0, 1, 16, 128, 255 }
TestArgs == { 0, 1, 127, 128, 255, 4096, 4336, 4351, 65520, 65535 }
TestPages == { 0, 1, 16, 17, 255 }

\* Stack pointers drawn when push is applied directly: the value after
\* construction and values push leaves behind.
TestSPs == { 0, 256, 384, 511 }

---------------------------------------------------------------------------
(* JavaScript values and operators.                                        *)

\* What a typed-array read outside the array yields (also standing for NaN,
\* which every use below coerces the same way).
Undefined == -2147483647

Byte == 0..255

\* n + m; NaN when either is undefined.
Plus(n, m) == IF n = Undefined \/ m = Undefined THEN Undefined ELSE n + m

\* ToInt32 of a value used as an operand of a bitwise operator.
ToInt(n) == IF n = Undefined THEN 0 ELSE n

RECURSIVE Pow2(_)
Pow2(k) == IF k = 0 THEN 1 ELSE 2 * Pow2(k - 1)

\* a & b on two's-complement values, one of them non-negative.
RECURSIVE AndBits(_, _)
AndBits(a, b) ==
    IF a = 0 \/ b = 0 THEN 0
    ELSE (a % 2) * (b % 2) + 2 * AndBits(a \div 2, b \div 2)

BitAnd(a, b) ==
    LET x == ToInt(a)
        y == ToInt(b)
    IN  IF y >= 0 THEN AndBits(y, x) ELSE AndBits(x, y)

\* a ^ b and a | b on non-negative values.
RECURSIVE BitXor(_, _)
BitXor(a, b) ==
    IF a = 0 THEN b
    ELSE IF b = 0 THEN a
    ELSE ((a + b) % 2) + 2 * BitXor(a \div 2, b \div 2)

RECURSIVE BitOr(_, _)
BitOr(a, b) ==
    IF a = 0 THEN b
    ELSE IF b = 0 THEN a
    ELSE (IF a % 2 = 1 \/ b % 2 = 1 THEN 1 ELSE 0) + 2 * BitOr(a \div 2, b \div 2)

\* 2 * a wrapped to 32 bits.
Dbl(a) ==
    IF a >= 1073741824 THEN ((a - 1073741824) - 1073741824) * 2
    ELSE IF a < -1073741824 THEN ((a + 1073741824) + 1073741824) * 2
    ELSE 2 * a

\* a << n: the count is taken modulo 32, the result wraps to 32 bits.
RECURSIVE ShlBy(_, _)
ShlBy(a, k) == IF k = 0 THEN a ELSE ShlBy(Dbl(a), k - 1)

Shl(a, n) == ShlBy(ToInt(a), ToInt(n) % 32)

\* a >> n, the arithmetic shift.
Shr(a, n) == ToInt(a) \div Pow2(ToInt(n) % 32)

---------------------------------------------------------------------------
(* Memory: a Uint8Array of 0x10000 zeroes; the model keeps the non-zero    *)
(* cells.                                                                  *)

MemSize == 65536

NewMem == << >>

\* this.mem[a]
MemRead(m, a) ==
    IF a = Undefined \/ a < 0 \/ a >= MemSize THEN Undefined
    ELSE IF a \in DOMAIN m THEN m[a] ELSE 0

\* this.mem[a] = v: the value is stored modulo 256; a store outside the
\* array is ignored.
MemWrite(m, a, v) ==
    IF a = Undefined \/ a < 0 \/ a >= MemSize THEN m
    ELSE LET b == ToInt(v) % 256
             D == IF b = 0 THEN DOMAIN m \ {a} ELSE DOMAIN m \cup {a}
         IN  [x \in D |-> IF x = a THEN b ELSE m[x]]

---------------------------------------------------------------------------
(* enum AddrMode                                                           *)

RELATIVE == 0
ACCUMULATOR == 1
IMPLIED == 2
IMMEDIATE == 3
INDIRECT == 4
X_INDIRECT == 5
INDIRECT_Y == 6
ZEROPAGE == 7
ZEROPAGE_X == 8
ZEROPAGE_Y == 9
ABSOLUTE == 10
ABSOLUTE_X == 11
ABSOLUTE_Y == 12

---------------------------------------------------------------------------
(* The opcode table.                                                       *)

\* addOpCode(op, opc, addr, bytes, cycles): the descriptor stored under opc.
addOpCode(op, opc, addr, bytes, cycles) ==
    [op |-> op, opc |-> opc, addr |-> addr, bytes |-> bytes, cycles |-> cycles]

\* The calls initOpCodeMap makes, in order, with their arguments in the
\* order the calls give them.
Registrations ==
    <<
       <<"ADC", 105, 2, 2, IMMEDIATE>>,  \* 0x69, line 106
       <<"ADC", 101, 2, 3, ZEROPAGE>>,  \* 0x65, line 107
       <<"ADC", 117, 2, 4, ZEROPAGE_X>>,  \* 0x75, line 108
       <<"ADC", 109, 3, 4, ABSOLUTE>>,  \* 0x6d, line 109
       <<"ADC", 125, 3, 4, ABSOLUTE_X>>,  \* 0x7d, line 110
       <<"ADC", 121, 3, 4, ABSOLUTE_Y>>,  \* 0x79, line 111
       <<"ADC", 97, 2, 6, X_INDIRECT>>,  \* 0x61, line 112
       <<"ADC", 113, 2, 5, INDIRECT_Y>>,  \* 0x71, line 113
       <<"AND", 41, 2, 2, IMMEDIATE>>,  \* 0x29, line 116
       <<"AND", 37, 2, 3, ZEROPAGE>>,  \* 0x25, line 117
       <<"AND", 53, 2, 4, ZEROPAGE_X>>,  \* 0x35, line 118
       <<"AND", 45, 3, 4, ABSOLUTE>>,  \* 0x2d, line 119
       <<"AND", 61, 3, 4, ABSOLUTE_X>>,  \* 0x3d, line 120
       <<"AND", 57, 3, 4, ABSOLUTE_Y>>,  \* 0x39, line 121
       <<"AND", 33, 2, 6, X_INDIRECT>>,  \* 0x21, line 122
       <<"AND", 49, 2, 5, INDIRECT_Y>>,  \* 0x31, line 123
       <<"ASL", 10, 1, 2, ACCUMULATOR>>,  \* 0x0a, line 126
       <<"ASL", 6, 2, 5, ZEROPAGE>>,  \* 0x06, line 127
       <<"ASL", 22, 2, 6, ZEROPAGE_X>>,  \* 0x16, line 128
       <<"ASL", 14, 3, 6, ABSOLUTE>>,  \* 0x0e, line 129
       <<"ASL", 30, 3, 7, ABSOLUTE_X>>,  \* 0x1e, line 130
       <<"BCC", 144, 2, 2, RELATIVE>>,  \* 0x90, line 133
       <<"BCS", 176, 2, 2, RELATIVE>>,  \* 0xb0, line 136
       <<"BEQ", 240, 2, 2, RELATIVE>>,  \* 0xf0, line 139
       <<"BIT", 36, 2, 3, ZEROPAGE>>,  \* 0x24, line 142
       <<"BIT", 44, 3, 4, ABSOLUTE>>,  \* 0x2c, line 143
       <<"BMI", 48, 2, 2, RELATIVE>>,  \* 0x30, line 146
       <<"BNE", 208, 2, 2, RELATIVE>>,  \* 0xd0, line 149
       <<"BPL", 16, 2, 2, RELATIVE>>,  \* 0x10, line 152
       <<"BRK", 0, 1, 7, IMPLIED>>,  \* 0x00, line 155
       <<"BVC", 80, 2, 2, RELATIVE>>,  \* 0x50, line 158
       <<"BVS", 112, 2, 2, RELATIVE>>,  \* 0x70, line 161
       <<"CLC", 24, 1, 2, IMPLIED>>,  \* 0x18, line 164
       <<"CLD", 216, 1, 2, IMPLIED>>,  \* 0xd8, line 167
       <<"CLI", 88, 1, 2, IMPLIED>>,  \* 0x58, line 170
       <<"CLV", 184, 1, 2, IMPLIED>>,  \* 0xb8, line 173
       <<"CMP", 201, 2, 2, IMMEDIATE>>,  \* 0xc9, line 176
       <<"CMP", 197, 2, 3, ZEROPAGE>>,  \* 0xc5, line 177
       <<"CMP", 213, 2, 4, ZEROPAGE_X>>,  \* 0xd5, line 178
       <<"CMP", 205, 3, 4, ABSOLUTE>>,  \* 0xcd, line 179
       <<"CMP", 221, 3, 4, ABSOLUTE_X>>,  \* 0xdd, line 180
       <<"CMP", 217, 3, 4, ABSOLUTE_Y>>,  \* 0xd9, line 181
       <<"CMP", 193, 2, 6, X_INDIRECT>>,  \* 0xc1, line 182
       <<"CMP", 209, 2, 5, INDIRECT_Y>>,  \* 0xd1, line 183
       <<"CPX", 224, 2, 2, IMMEDIATE>>,  \* 0xe0, line 186
       <<"CPX", 228, 2, 3, ZEROPAGE>>,  \* 0xe4, line 187
       <<"CPX", 236, 3, 4, ABSOLUTE>>,  \* 0xec, line 188
       <<"CPY", 192, 2, 2, IMMEDIATE>>,  \* 0xc0, line 191
       <<"CPY", 196, 2, 3, ZEROPAGE>>,  \* 0xc4, line 192
       <<"CPY", 204, 3, 4, ABSOLUTE>>   \* 0xcc, line 193
    >>

\* initOpCodeMap(): every call stores its descriptor under its opcode byte,
\* a later call replacing an earlier one for the same byte.
initOpCodeMap ==
    LET keys == { Registrations[i][2] : i \in DOMAIN Registrations }
        last(k) == CHOOSE i \in DOMAIN Registrations :
                      /\ Registrations[i][2] = k
                      /\ \A j \in DOMAIN Registrations :
                            Registrations[j][2] = k => j <= i
    IN  [k \in keys |->
            LET r == Registrations[last(k)]
            IN  addOpCode(r[1], r[2], r[3], r[4], r[5])]

---------------------------------------------------------------------------
(* The CPU object.                                                         *)

\* The fields of a CPU after its initialisers have run.
NewCPU ==
    [A |-> 511, X |-> 0, Y |-> 0, SP |-> 0, PC |-> 0,
     N |-> 0, V |-> 0, B5 |-> 0, B4 |-> 0, D |-> 0, I |-> 0, Z |-> 0, C |-> 0,
     mem |-> NewMem]

\* loadOpCode(pc): this.ops[pc].
loadOpCode(o, pc) ==
    IF pc = Undefined \/ pc < 0 \/ pc >= Len(o) THEN Undefined ELSE o[pc + 1]

\* The zero-page cases with the index added and the sum not masked.
ZeroPageOperand_Unmasked(s, arg, index) ==
    <<MemRead(s.mem, Plus(arg, index)), 0>>

\* The ZEROPAGE, ZEROPAGE_X and ZEROPAGE_Y cases of address: the operand at
\* (arg + index) & 0xff, no extra cycle.
ZeroPageOperand(s, arg, index) ==
    <<MemRead(s.mem, BitAnd(Plus(arg, index), 255)), 0>>

\* address(addrMode, arg): the operand and the extra cycles of the mode.
\* The ABSOLUTE_X case has no break and runs on into the ABSOLUTE_Y case.
address(s, addrMode, arg) ==
    LET crosses(base, index) ==
            BitAnd(base, 65280) # BitAnd(Plus(base, index), 65280)
    IN  CASE addrMode = ABSOLUTE ->
               <<MemRead(s.mem, arg), 0>>
          [] addrMode = ABSOLUTE_X ->
               LET cycleAddX == IF crosses(arg, s.X) THEN 1 ELSE 0
                   cycleAdd  == IF crosses(arg, s.Y) THEN 1 ELSE cycleAddX
               IN  <<MemRead(s.mem, Plus(arg, s.Y)), cycleAdd>>
          [] addrMode = ABSOLUTE_Y ->
               <<MemRead(s.mem, Plus(arg, s.Y)), IF crosses(arg, s.Y) THEN 1 ELSE 0>>
          [] addrMode = IMMEDIATE ->
               <<arg, 0>>
          [] addrMode = INDIRECT ->
               LET ll == MemRead(s.mem, arg)
                   hh == MemRead(s.mem, BitAnd(Plus(arg, 1), 255))
               IN  <<MemRead(s.mem, Shl(hh, Plus(8, ll))), 0>>
          [] addrMode = X_INDIRECT ->
               LET a  == BitAnd(arg, 255)
                   ll == MemRead(s.mem, BitAnd(a + s.X, 255))
                   hh == MemRead(s.mem, BitAnd(a + s.X + 1, 255))
               IN  <<MemRead(s.mem, Shl(hh, Plus(8, ll))), 0>>
          [] addrMode = INDIRECT_Y ->
               LET a    == BitAnd(arg, 255)
                   ll   == MemRead(s.mem, a)
                   hh   == MemRead(s.mem, BitAnd(a + 1, 255))
                   addr == Shl(hh, Plus(8, ll))
               IN  <<MemRead(s.mem, addr + s.Y), IF crosses(addr, s.Y) THEN 1 ELSE 0>>
          [] addrMode = ZEROPAGE ->
               ZeroPageOperand(s, arg, 0)
          [] addrMode = ZEROPAGE_X ->
               ZeroPageOperand(s, arg, s.X)
          [] addrMode = ZEROPAGE_Y ->
               ZeroPageOperand(s, arg, s.Y)
          [] OTHER ->
               <<0, 0>>

---------------------------------------------------------------------------
(* The instruction handlers: each yields the CPU after the handler and the *)
(* number it returns.  runop only ever hands them a number.                *)

Done(s, cycles) == [s |-> s, r |-> cycles]

Flag(b) == IF b THEN 1 ELSE 0

\* ADC: Add Memory to Accumulator with Carry
ADC(s, oper) ==
    LET sum    == s.A + oper + s.C
        result == BitAnd(sum, 255)
    IN  Done([s EXCEPT
                !.C = Flag(sum > 255),
                !.V = Flag(BitAnd(BitAnd(BitXor(result, oper), BitXor(s.A, oper)), 128) > 0),
                !.N = Flag(BitAnd(result, 128) > 0),
                !.Z = Flag(result = 0),
                !.A = result], 0)

\* AND: AND Memory with Accumulator
AND(s, oper) ==
    LET result == BitAnd(s.A, oper)
    IN  Done([s EXCEPT
                !.N = Flag(BitAnd(result, 128) > 0),
                !.Z = Flag(result = 0),
                !.A = result], 0)

\* ASL: Shift Left One Bit; the handler shifts the accumulator whatever the
\* addressing mode.
ASL(s, oper) ==
    LET shifted == Shl(s.A, 1)
        result  == BitAnd(shifted, 255)
    IN  Done([s EXCEPT
                !.C = Flag(shifted > 255),
                !.N = Flag(BitAnd(result, 128) > 0),
                !.Z = Flag(result = 0),
                !.A = result], 0)

\* branch(oper): sets PC and returns the extra cycles of a taken branch.
branch(s, oper) ==
    LET result == IF oper > 127 THEN s.PC + oper ELSE s.PC - 256 + oper
        cycles == IF BitAnd(result, 65280) = BitAnd(s.PC, 65280) THEN 1 ELSE 2
    IN  Done([s EXCEPT !.PC = result], cycles)

BCC(s, oper) == IF s.C = 0 THEN branch(s, oper) ELSE Done(s, 0)

BCS(s, oper) == IF s.C # 0 THEN branch(s, oper) ELSE Done(s, 0)

BEQ(s, oper) == IF s.Z # 0 THEN branch(s, oper) ELSE Done(s, 0)

\* BIT: Test Bits in Memory with Accumulator
BIT(s, oper) ==
    LET result == BitAnd(s.A, oper)
    IN  Done([s EXCEPT
                !.Z = Flag(result = 0),
                !.N = Flag(BitAnd(result, 128) = 1),
                !.V = Flag(BitAnd(result, 64) = 1)], 0)

BMI(s, oper) == IF s.N # 0 THEN branch(s, oper) ELSE Done(s, 0)

BNE(s, oper) == IF s.Z # 0 THEN branch(s, oper) ELSE Done(s, 0)

BPL(s, oper) == IF s.N = 0 THEN branch(s, oper) ELSE Done(s, 0)

\* push(value): stores at mem[SP], then decrements SP and forces the page bit.
push(s, value) ==
    [s EXCEPT
        !.mem = MemWrite(s.mem, s.SP, value),
        !.SP  = BitOr(BitAnd(s.SP - 1, 255), 256)]

\* packSR with the positions of V and N exchanged.
packSR_SwappedVN(s) ==
    BitOr(s.C,
    BitOr(Shl(s.Z, 1),
    BitOr(Shl(s.I, 2),
    BitOr(Shl(s.D, 3),
    BitOr(Shl(s.B4, 4),
    BitOr(Shl(s.B5, 5),
    BitOr(Shl(s.N, 6), Shl(s.V, 7))))))))

\* packSR(): the flags packed into one byte.
packSR(s) ==
    BitOr(s.C,
    BitOr(Shl(s.Z, 1),
    BitOr(Shl(s.I, 2),
    BitOr(Shl(s.D, 3),
    BitOr(Shl(s.B4, 4),
    BitOr(Shl(s.B5, 5),
    BitOr(Shl(s.V, 6), Shl(s.N, 7))))))))

\* BRK: Force Break
BRK(s, oper) ==
    LET s1 == push(s, s.PC + 2)
        s2 == push(s1, packSR(s1))
    IN  Done([s2 EXCEPT !.I = 1], 0)

BVC(s, oper) == IF s.V = 0 THEN branch(s, oper) ELSE Done(s, 0)

BVS(s, oper) == IF s.V = 1 THEN branch(s, oper) ELSE Done(s, 0)

CLC(s, oper) == Done([s EXCEPT !.C = 0], 0)

CLD(s, oper) == Done([s EXCEPT !.D = 0], 0)

CLI(s, oper) == Done([s EXCEPT !.I = 0], 0)

CLV(s, oper) == Done([s EXCEPT !.V = 0], 0)

\* Compare with the sign taken as the whole of result >> 7.
Compare_UnmaskedSign(s, reg, oper) ==
    LET result == reg - oper
    IN  Done([s EXCEPT
                !.C = Flag(result >= 0),
                !.N = Shr(result, 7),
                !.Z = Flag(BitAnd(result, 255) = 0)], 0)

\* Compare with Carry set only when the register is above the operand.
Compare_StrictCarry(s, reg, oper) ==
    LET result == reg - oper
    IN  Done([s EXCEPT
                !.C = Flag(result > 0),
                !.N = Flag(BitAnd(Shr(result, 7), 1) = 1),
                !.Z = Flag(BitAnd(result, 255) = 0)], 0)

\* The compare shared by CMP, CPX and CPY, on the register's value.
Compare(s, reg, oper) ==
    LET result == reg - oper
    IN  Done([s EXCEPT
                !.C = Flag(result >= 0),
                !.N = Flag(BitAnd(Shr(result, 7), 1) = 1),
                !.Z = Flag(BitAnd(result, 255) = 0)], 0)

CMP(s, oper) == Compare(s, s.A, oper)

CPX(s, oper) == Compare(s, s.X, oper)

CPY(s, oper) == Compare(s, s.Y, oper)

\* The handler a descriptor's op refers to, applied.
Handlers ==
    { "ADC", "AND", "ASL", "BCC", "BCS", "BEQ", "BIT", "BMI", "BNE", "BPL",
      "BRK", "BVC", "BVS", "CLC", "CLD", "CLI", "CLV", "CMP", "CPX", "CPY" }

Apply(op, s, oper) ==
    CASE op = "ADC" -> ADC(s, oper)
      [] op = "AND" -> AND(s, oper)
      [] op = "ASL" -> ASL(s, oper)
      [] op = "BCC" -> BCC(s, oper)
      [] op = "BCS" -> BCS(s, oper)
      [] op = "BEQ" -> BEQ(s, oper)
      [] op = "BIT" -> BIT(s, oper)
      [] op = "BMI" -> BMI(s, oper)
      [] op = "BNE" -> BNE(s, oper)
      [] op = "BPL" -> BPL(s, oper)
      [] op = "BRK" -> BRK(s, oper)
      [] op = "BVC" -> BVC(s, oper)
      [] op = "BVS" -> BVS(s, oper)
      [] op = "CLC" -> CLC(s, oper)
      [] op = "CLD" -> CLD(s, oper)
      [] op = "CLI" -> CLI(s, oper)
      [] op = "CLV" -> CLV(s, oper)
      [] op = "CMP" -> CMP(s, oper)
      [] op = "CPX" -> CPX(s, oper)
      [] op = "CPY" -> CPY(s, oper)

---------------------------------------------------------------------------
(* runop(): one step.                                                      *)

\* The outcome of a call: the CPU after it, whether it threw, the number it
\* returned, and the opcode byte, raw argument and operand it worked on.
\* Destructuring the missing descriptor of an opcode byte without a table
\* entry throws before anything else is evaluated.
Thrown(s, opc) ==
    [s |-> s, threw |-> TRUE, cycles |-> 0, opc |-> opc, arg |-> 0, oper |-> 0]

\* The step with the handler invoked before the program counter is advanced.
Execute_HandlerBeforeAdvance(s, info, o, opc) ==
    LET arg  == IF info.bytes = 2
                    THEN loadOpCode(o, s.PC + 1)
                ELSE IF info.bytes = 3
                    THEN Shl(loadOpCode(o, s.PC + 2),
                             Plus(8, loadOpCode(o, s.PC + 1)))
                ELSE 0
        res  == address(s, info.addr, arg)
        oper == res[1]
        h    == Apply(info.op, s, oper)
    IN  [s |-> [h.s EXCEPT !.PC = h.s.PC + info.bytes], threw |-> FALSE,
         cycles |-> info.cycles + res[2] + h.r,
         opc |-> opc, arg |-> arg, oper |-> oper]

\* The step once the descriptor of opc is in hand.
Execute(s, info, o, opc) ==
    LET arg  == IF info.bytes = 2
                    THEN loadOpCode(o, s.PC + 1)
                ELSE IF info.bytes = 3
                    THEN Shl(loadOpCode(o, s.PC + 2),
                             Plus(8, loadOpCode(o, s.PC + 1)))
                ELSE 0
        res  == address(s, info.addr, arg)
        oper == res[1]
        s1   == [s EXCEPT !.PC = s.PC + info.bytes]
        h    == Apply(info.op, s1, oper)
    IN  [s |-> h.s, threw |-> FALSE,
         cycles |-> info.cycles + res[2] + h.r,
         opc |-> opc, arg |-> arg, oper |-> oper]

\* runop with the program counter moved past the opcode byte before the
\* table lookup.
runop_AdvanceBeforeLookup(s, map, o) ==
    LET opc == loadOpCode(o, s.PC)
    IN  IF opc \notin DOMAIN map
        THEN Thrown([s EXCEPT !.PC = s.PC + 1], opc)
        ELSE Execute(s, map[opc], o, opc)

runop(s, map, o) ==
    LET opc == loadOpCode(o, s.PC)
    IN  IF opc \notin DOMAIN map
        THEN Thrown(s, opc)
        ELSE Execute(s, map[opc], o, opc)

---------------------------------------------------------------------------
(* The programs a CPU is constructed with.                                 *)

RECURSIVE ProgramsOfLen(_)
ProgramsOfLen(n) ==
    IF n = 0 THEN { << >> }
    ELSE { Append(p, b) : p \in ProgramsOfLen(n - 1),
                          b \in IF n % 2 = 1 THEN ProgOpcodes ELSE ProgOperands }

Programs == UNION { ProgramsOfLen(n) : n \in 0..MaxOps }

\* No call made yet on a CPU in state s.
NoCall(s) ==
    [call |-> "new", threw |-> FALSE, cycles |-> 0,
     opc |-> Undefined, arg |-> 0, oper |-> 0, pre |-> s]

---------------------------------------------------------------------------
(* The emulator: a CPU is constructed on a program and stepped.            *)

Init ==
    /\ ops \in Programs
    /\ cpu = NewCPU
    /\ opCodeMap = initOpCodeMap
    /\ ret = NoCall(NewCPU)

\* cpu.runop()
Runop ==
    /\ LET r == runop(cpu, opCodeMap, ops)
       IN  /\ cpu' = r.s
           /\ ret' = [call |-> "runop", threw |-> r.threw, cycles |-> r.cycles,
                      opc |-> r.opc, arg |-> r.arg, oper |-> r.oper, pre |-> cpu]
    /\ UNCHANGED <<opCodeMap, ops>>

Next == Runop

Spec == Init /\ [][Next]_vars

---------------------------------------------------------------------------
(* A handler, or push, applied on its own to an operand: the accumulator,  *)
(* the program counter, the stack pointer and the flags C, Z, N and V are  *)
(* drawn from bounded sets, and the call is made once.                     *)

InitOp ==
    /\ ops = << >>
    /\ \E a \in TestBytes, pc \in TestPCs, sp \in TestSPs, c \in {0, 1},
          z \in {0, 1}, n \in {0, 1}, v \in {0, 1} :
          cpu = [NewCPU EXCEPT !.A = a, !.PC = pc, !.SP = sp, !.C = c,
                               !.Z = z, !.N = n, !.V = v]
    /\ opCodeMap = initOpCodeMap
    /\ ret = NoCall(cpu)

\* op(oper), once.
CallOp ==
    /\ ret.call = "new"
    /\ \E op \in Handlers, oper \in TestBytes :
          LET h == Apply(op, cpu, oper)
          IN  /\ cpu' = h.s
              /\ ret' = [call |-> op, threw |-> FALSE, cycles |-> h.r,
                         opc |-> Undefined, arg |-> oper, oper |-> oper,
                         pre |-> cpu]
    /\ UNCHANGED <<opCodeMap, ops>>

\* push(value), once.
CallPush ==
    /\ ret.call = "new"
    /\ \E value \in TestBytes :
          /\ cpu' = push(cpu, value)
          /\ ret' = [call |-> "push", threw |-> FALSE, cycles |-> 0,
                     opc |-> Undefined, arg |-> value, oper |-> value,
                     pre |-> cpu]
    /\ UNCHANGED <<opCodeMap, ops>>

NextOp == CallOp \/ CallPush

SpecOp == InitOp /\ [][NextOp]_vars

---------------------------------------------------------------------------
(* Properties of a step.                                                   *)

\* The last call was a runop() that ran its handler.
Stepped == ret.call = "runop" /\ ~ret.threw

\* The byte the program holds at the program counter the last call started
\* from, and the one after it.
FetchedOpcode == loadOpCode(ops, ret.pre.PC)
FetchedOperand == loadOpCode(ops, ret.pre.PC + 1)

FlagNames == { "N", "V", "B5", "B4", "D", "I", "Z", "C" }

\* C1: a step whose opcode byte has a table entry completes and returns a
\* cycle count; a step whose opcode byte has none fails, and the registers,
\* the flags and the memory are then what they were before the step.
C1_FailedStepMutatesNothing ==
    ret.call = "runop" =>
        IF FetchedOpcode \in DOMAIN opCodeMap
        THEN ~ret.threw /\ ret.cycles \in Nat
        ELSE ret.threw /\ cpu = ret.pre

\* A step failed on an opcode byte without a table entry after earlier steps
\* had changed the accumulator and the program counter.
C1_Witness ==
    /\ ret.call = "runop"
    /\ ret.threw
    /\ loadOpCode(ops, cpu.PC) = 2
    /\ cpu.PC > 0
    /\ cpu.A # NewCPU.A

\* C2: in every reachable state A, X and Y each hold a value in [0,255].
C2_RegistersAre8Bit ==
    /\ cpu.A \in Byte
    /\ cpu.X \in Byte
    /\ cpu.Y \in Byte

\* C3: in every reachable state PC is in [0,65535].
C3_PCIs16Bit == cpu.PC \in 0..65535

\* C4: in every reachable state SP is in [0,255].
C4_SPIs8Bit == cpu.SP \in Byte

\* C5: in every reachable state each of the flags N, V, B5, B4, D, I, Z and
\* C is exactly 0 or 1.
C5_FlagsAreBits == \A f \in FlagNames : cpu[f] \in {0, 1}

\* A compare on the accumulator's initial value has set N and C.
C5_Witness ==
    /\ Stepped
    /\ opCodeMap[ret.opc].op = "CMP"
    /\ ret.pre.A > 255
    /\ cpu.N = 1
    /\ cpu.C = 1

---------------------------------------------------------------------------
(* Properties of push and of the handlers applied on their own.            *)

\* C6: a push of byte v with stack pointer s writes v to 0x0100+s, changes
\* no other memory cell, and leaves SP = (s-1) mod 256, for every s in
\* [0,255], the first push after construction included.
C6_PushWritesStackPage ==
    ret.call = "push" =>
        LET s == ret.pre.SP % 256
        IN  /\ cpu.mem = MemWrite(ret.pre.mem, 256 + s, ret.arg)
            /\ cpu.SP = (s - 1) % 256

\* bit 7 of a byte
Sign(b) == (b \div 128) % 2

\* C7: for 8-bit a, b and carry-in c, ADC leaves Carry = 1 exactly when
\* a+b+c > 255, Overflow = 1 exactly when a and b have the same sign bit
\* and the 8-bit result has the opposite one, and A = (a+b+c) mod 256.
C7_ADCCarryAndOverflow ==
    (ret.call = "ADC" /\ ret.pre.A \in Byte) =>
        LET a == ret.pre.A
            b == ret.oper
            sum == a + b + ret.pre.C
            result == sum % 256
        IN  /\ cpu.C = Flag(sum > 255)
            /\ cpu.V = Flag(Sign(a) = Sign(b) /\ Sign(result) # Sign(a))
            /\ cpu.A = result

---------------------------------------------------------------------------
(* Properties of steps on particular instructions.                         *)

\* C8: a step on ADC #b (0x69 b) hands the handler the literal byte b,
\* advances PC by 2 and returns 2 cycles; from an 8-bit A it leaves
\* A = (A+b+C) mod 256 with C, Z and N set from that sum (A=0x10, C=0, b=5
\* gives A=0x15, C=0, Z=0, N=0).
C8_ADCImmediateStep ==
    (ret.call = "runop" /\ FetchedOpcode = 105 /\ FetchedOperand \in Byte) =>
        LET sum == ret.pre.A + FetchedOperand + ret.pre.C
        IN  /\ ~ret.threw
            /\ ret.oper = FetchedOperand
            /\ cpu.PC = ret.pre.PC + 2
            /\ ret.cycles = 2
            /\ ret.pre.A \in Byte =>
                  /\ cpu.A = sum % 256
                  /\ cpu.C = Flag(sum > 255)
                  /\ cpu.Z = Flag(sum % 256 = 0)
                  /\ cpu.N = Sign(sum % 256)

BranchOpcodes == { 144, 176, 240, 208, 48, 16, 80, 112 }

\* The last call was a step on a conditional branch with its offset byte.
BranchStep ==
    /\ Stepped
    /\ FetchedOpcode \in BranchOpcodes
    /\ FetchedOperand \in Byte

\* The handler of the last step reported extra cycles: the branch was taken.
BranchTaken == ret.cycles > opCodeMap[ret.opc].cycles

\* The offset byte as a signed number.
SignedOffset(b) == IF b < 128 THEN b ELSE b - 256

SamePage(a, b) == a \div 256 = b \div 256

\* C9: a taken branch sets PC to the address after the 2-byte instruction
\* plus the signed offset; BCC with Carry clear is taken and consumes 3
\* cycles when the target stays in the page of the address after the
\* instruction (0x90 0x02 at 0x8000 gives 0x8004).
C9_TakenBranchTarget ==
    BranchStep =>
        LET after  == ret.pre.PC + 2
            target == after + SignedOffset(FetchedOperand)
        IN  /\ BranchTaken => cpu.PC = target
            /\ (FetchedOpcode = 144 /\ ret.pre.C = 0) =>
                  /\ cpu.PC = target
                  /\ SamePage(target, after) => ret.cycles = 3

\* C10: a step on a conditional branch returns 2 cycles when the branch is
\* not taken, 3 when it is taken to a target in the page of the address
\* after the instruction and 4 when the target is in another page; a branch
\* not taken leaves PC at the address after the instruction.
C10_BranchCycles ==
    BranchStep =>
        LET after == ret.pre.PC + 2
        IN  IF BranchTaken
            THEN ret.cycles = 2 + (IF SamePage(cpu.PC, after) THEN 1 ELSE 2)
            ELSE ret.cycles = 2 /\ cpu.PC = after

---------------------------------------------------------------------------
(* Properties of BRK, of the order of a step and of the opcode table.      *)

\* The status byte of a CPU state with the two break-marker bits set.
StatusWithBreak(s) ==
    s.C + 2 * s.Z + 4 * s.I + 8 * s.D + 16 + 32 + 64 * s.V + 128 * s.N

\* C11: a step on BRK (0x00) at address p pushes p+2 as two bytes, the high
\* byte first and then the low byte, then pushes the packed status byte with
\* bits 4 and 5 set, sets I to 1 and sets PC to the little-endian word at
\* 0xFFFE/0xFFFF; SP ends 3 lower (mod 256) than before.
C11_BRKStep ==
    (ret.call = "runop" /\ FetchedOpcode = 0) =>
        LET p  == ret.pre.PC
            sp == ret.pre.SP % 256
            m1 == MemWrite(ret.pre.mem, 256 + sp, ((p + 2) \div 256) % 256)
            m2 == MemWrite(m1, 256 + ((sp - 1) % 256), (p + 2) % 256)
            m3 == MemWrite(m2, 256 + ((sp - 2) % 256), StatusWithBreak(ret.pre))
        IN  /\ ~ret.threw
            /\ cpu.mem = m3
            /\ cpu.I = 1
            /\ cpu.PC = MemRead(ret.pre.mem, 65534)
                          + 256 * MemRead(ret.pre.mem, 65535)
            /\ cpu.SP % 256 = (ret.pre.SP - 3) % 256

\* The byte length the registration of opcode byte opc declares.
DeclaredBytes(opc) ==
    LET i == CHOOSE j \in DOMAIN Registrations : Registrations[j][2] = opc
    IN  Registrations[i][3]

C13_TableCarriesRegistrations ==
    /\ \A i \in DOMAIN Registrations :
          LET r == Registrations[i]
              d == opCodeMap[r[2]]
          IN  /\ d.bytes = r[3]
              /\ d.cycles = r[4]
              /\ d.addr = r[5]
              /\ d.bytes \in 1..3
    /\ opCodeMap = initOpCodeMap

---------------------------------------------------------------------------
(* address applied on its own to a mode and a raw argument, with the index *)
(* registers and the memory drawn from bounded sets.                       *)

AddrModes == RELATIVE..ABSOLUTE_Y

\* A non-zero byte for every cell, different for cells 256 apart.
Mark(a) == 1 + (((a % 256) + (a \div 256)) % 251)

\* A memory whose cells in the drawn pages each hold their mark.
PatternMem ==
    [a \in UNION { (256 * page)..(256 * page + 255) : page \in TestPages }
        |-> Mark(a)]

\* A memory holding two pointers: at 0x1000 the word 0x1234, and at 0x10FF a
\* low byte 0x78 whose high byte is 0x34 at the start of the page and 0x56 at
\* the start of the next page; the three targets and the first two cells of
\* page 0 hold distinct bytes.
PointerMem ==
    (4096 :> 52) @@ (4097 :> 18) @@ (4351 :> 120) @@ (4352 :> 86) @@
    (4660 :> 161) @@ (13432 :> 162) @@ (22136 :> 163) @@
    (0 :> 17) @@ (1 :> 34)

TestMems == { PatternMem, PointerMem }

InitAddr ==
    /\ ops = << >>
    /\ \E x \in TestIndexes, y \in TestIndexes, m \in TestMems :
          cpu = [NewCPU EXCEPT !.X = x, !.Y = y, !.mem = m]
    /\ opCodeMap = initOpCodeMap
    /\ ret = NoCall(cpu)

\* address(addrMode, arg), once.
CallAddress ==
    /\ ret.call = "new"
    /\ \E addrMode \in AddrModes, arg \in TestArgs :
          LET res == address(cpu, addrMode, arg)
          IN  ret' = [call |-> "address", mode |-> addrMode, threw |-> FALSE,
                      cycles |-> res[2], opc |-> Undefined, arg |-> arg,
                      oper |-> res[1], pre |-> cpu]
    /\ UNCHANGED <<cpu, opCodeMap, ops>>

NextAddr == CallAddress

SpecAddr == InitAddr /\ [][NextAddr]_vars

\* The last call was address(mode, arg) in one of the given modes.
Resolved(modes) == ret.call = "address" /\ ret.mode \in modes

\* C14: for every base byte and index value in [0,255], zero-page,
\* zero-page-X and zero-page-Y resolution reads the operand from address
\* (base + index) mod 256, within 0x00-0xFF, and reports no extra cycle.
C14_ZeroPageWraps ==
    (Resolved({ZEROPAGE, ZEROPAGE_X, ZEROPAGE_Y}) /\ ret.arg \in Byte) =>
        LET index == CASE ret.mode = ZEROPAGE   -> 0
                       [] ret.mode = ZEROPAGE_X -> cpu.X
                       [] ret.mode = ZEROPAGE_Y -> cpu.Y
            a     == (ret.arg + index) % 256
        IN  /\ a \in 0..255
            /\ ret.oper = MemRead(cpu.mem, a)
            /\ ret.cycles = 0

\* A zero-page-X resolution whose base plus index passed 0xFF read page 0.
C14_Witness ==
    /\ Resolved({ZEROPAGE_X})
    /\ ret.arg \in Byte
    /\ ret.arg + cpu.X > 255
    /\ ret.oper = Mark((ret.arg + cpu.X) % 256)
    /\ ret.oper # Mark(ret.arg + cpu.X)

\* C15: absolute-X resolution with base b reads the operand from
\* (b + X) mod 65536 and reports 1 extra cycle exactly when the high byte of
\* b differs from the high byte of b + X, whatever Y is; absolute-Y does the
\* same with Y alone; plain absolute reads from b with no extra cycle.
C15_AbsoluteIndexed ==
    (Resolved({ABSOLUTE, ABSOLUTE_X, ABSOLUTE_Y}) /\ ret.arg \in 0..65535) =>
        LET index == CASE ret.mode = ABSOLUTE   -> 0
                       [] ret.mode = ABSOLUTE_X -> cpu.X
                       [] ret.mode = ABSOLUTE_Y -> cpu.Y
            b     == ret.arg
        IN  /\ ret.oper = MemRead(cpu.mem, (b + index) % 65536)
            /\ ret.cycles = Flag(b \div 256 # (b + index) \div 256)

---------------------------------------------------------------------------
(* Properties of the raw argument and of indirect resolution.              *)

\* C16: a step on an instruction of length 3 with operand bytes lo (at PC+1)
\* and hi (at PC+2) passes hi*256 + lo to address resolution; a step on an
\* instruction of length 2 passes the byte at PC+1; a step on an instruction
\* of length 1 fetches no operand byte.
C16_RawArgument ==
    Stepped =>
        LET len == opCodeMap[FetchedOpcode].bytes
            lo  == loadOpCode(ops, ret.pre.PC + 1)
            hi  == loadOpCode(ops, ret.pre.PC + 2)
        IN  /\ (len = 3 /\ lo \in Byte /\ hi \in Byte) => ret.arg = hi * 256 + lo
            /\ (len = 2 /\ lo \in Byte) => ret.arg = lo
            /\ len = 1 => ret.arg = 0

\* C17: indirect resolution of a pointer address p reads the target's low
\* byte from p and its high byte from p+1, or from the start of p's page
\* (p & 0xFF00) when the low byte of p is 0xFF, and yields the operand at
\* the target (high byte << 8) | low byte.
C17_IndirectPageWrap ==
    (Resolved({INDIRECT}) /\ ret.arg \in 0..65535) =>
        LET p      == ret.arg
            lo     == MemRead(cpu.mem, p)
            hi     == MemRead(cpu.mem, IF p % 256 = 255 THEN p - 255 ELSE p + 1)
            target == hi * 256 + lo
        IN  ret.oper = MemRead(cpu.mem, target)

---------------------------------------------------------------------------
(* CMP, CPX or CPY applied on its own to an operand, with A, X and Y drawn *)
(* from bounded sets and the flags C, Z and N all clear or all set.        *)

CompareOps == { "CMP", "CPX", "CPY" }

InitCmp ==
    /\ ops = << >>
    /\ \E a \in TestBytes, x \in TestBytes, y \in TestBytes, f \in {0, 1} :
          cpu = [NewCPU EXCEPT !.A = a, !.X = x, !.Y = y,
                               !.C = f, !.Z = f, !.N = f]
    /\ opCodeMap = initOpCodeMap
    /\ ret = NoCall(cpu)

\* op(oper) for a compare, once.
CallCompare ==
    /\ ret.call = "new"
    /\ \E op \in CompareOps, oper \in TestBytes :
          LET h == Apply(op, cpu, oper)
          IN  /\ cpu' = h.s
              /\ ret' = [call |-> op, threw |-> FALSE, cycles |-> h.r,
                         opc |-> Undefined, arg |-> oper, oper |-> oper,
                         pre |-> cpu]
    /\ UNCHANGED <<opCodeMap, ops>>

NextCmp == CallCompare

SpecCmp == InitCmp /\ [][NextCmp]_vars

\* C18: CMP, CPX and CPY with register value r and operand m in [0,255]
\* leave every register unchanged and set Carry = 1 exactly when r >= m,
\* Z = 1 exactly when r = m, and N = bit 7 of (r - m) mod 256.
C18_CompareFlags ==
    ret.call \in CompareOps =>
        LET r == CASE ret.call = "CMP" -> ret.pre.A
                   [] ret.call = "CPX" -> ret.pre.X
                   [] ret.call = "CPY" -> ret.pre.Y
            m == ret.oper
        IN  cpu = [ret.pre EXCEPT !.C = Flag(r >= m),
                                  !.Z = Flag(r = m),
                                  !.N = Sign((r - m) % 256)]

\* CPX compared X with a larger operand: a borrow, and a negative result.
C18_Witness ==
    /\ ret.call = "CPX"
    /\ ret.pre.X < ret.oper
    /\ ret.pre.C = 1
    /\ cpu.C = 0
    /\ cpu.N = 1
    /\ cpu.X = ret.pre.X

---------------------------------------------------------------------------
(* packSR() called on its own, for every combination of the eight flags.   *)

InitSR ==
    /\ ops = << >>
    /\ \E n \in {0, 1}, v \in {0, 1}, b5 \in {0, 1}, b4 \in {0, 1},
          d \in {0, 1}, i \in {0, 1}, z \in {0, 1}, c \in {0, 1} :
          cpu = [NewCPU EXCEPT !.N = n, !.V = v, !.B5 = b5, !.B4 = b4,
                               !.D = d, !.I = i, !.Z = z, !.C = c]
    /\ opCodeMap = initOpCodeMap
    /\ ret = NoCall(cpu)

\* packSR(), once; the byte it returns is recorded as the call's result.
CallPackSR ==
    /\ ret.call = "new"
    /\ ret' = [call |-> "packSR", threw |-> FALSE, cycles |-> 0,
               opc |-> Undefined, arg |-> 0, oper |-> packSR(cpu),
               pre |-> cpu]
    /\ UNCHANGED <<cpu, opCodeMap, ops>>

NextSR == CallPackSR

SpecSR == InitSR /\ [][NextSR]_vars

\* C19: the packed status byte holds C at bit 0, Z at bit 1, I at bit 2,
\* D at bit 3, B4 at bit 4, B5 at bit 5, V at bit 6 and N at bit 7: for
\* every combination of flag values it equals
\* C + 2Z + 4I + 8D + 16B4 + 32B5 + 64V + 128N and lies in [0,255].
C19_PackedStatusByte ==
    ret.call = "packSR" =>
        LET s == ret.pre
        IN  /\ ret.oper = s.C + 2 * s.Z + 4 * s.I + 8 * s.D + 16 * s.B4
                            + 32 * s.B5 + 64 * s.V + 128 * s.N
            /\ ret.oper \in 0 .. 255

\* packSR() ran with N, B5 and Z set and V, B4 and C clear: 0xA2.
C19_Witness ==
    /\ ret.call = "packSR"
    /\ ret.pre.N = 1 /\ ret.pre.V = 0
    /\ ret.pre.B5 = 1 /\ ret.pre.B4 = 0
    /\ ret.pre.Z = 1 /\ ret.pre.C = 0
    /\ ret.pre.I = 0 /\ ret.pre.D = 0
    /\ ret.oper = 162

---------------------------------------------------------------------------
(* Properties of steps on the flag-clear instructions.                     *)

FlagClearOpcodes == { 24, 216, 88, 184 }

\* C20: a step on CLC (0x18), CLD (0xD8), CLI (0x58) or CLV (0xB8) sets
\* its one flag (C, D, I or V) to 0 and advances PC by 1, leaves A, X, Y,
\* SP, every other flag and the memory unchanged, and returns 2 cycles.
C20_FlagClearStep ==
    (ret.call = "runop" /\ FetchedOpcode \in FlagClearOpcodes) =>
        LET p == ret.pre
            q == [p EXCEPT !.PC = p.PC + 1]
        IN  /\ ~ret.threw
            /\ ret.cycles = 2
            /\ cpu = CASE FetchedOpcode = 24  -> [q EXCEPT !.C = 0]
                       [] FetchedOpcode = 216 -> [q EXCEPT !.D = 0]
                       [] FetchedOpcode = 88  -> [q EXCEPT !.I = 0]
                       [] FetchedOpcode = 184 -> [q EXCEPT !.V = 0]

---------------------------------------------------------------------------
(* Properties of the branch conditions and of BIT, on the handlers.        *)

BranchNames == { "BCC", "BCS", "BEQ", "BNE", "BMI", "BPL", "BVC", "BVS" }

\* The condition each branch is named after, on the flags of state s.
NamedCondition(op, s) ==
    CASE op = "BCC" -> s.C = 0
      [] op = "BCS" -> s.C = 1
      [] op = "BEQ" -> s.Z = 1
      [] op = "BNE" -> s.Z = 0
      [] op = "BMI" -> s.N = 1
      [] op = "BPL" -> s.N = 0
      [] op = "BVC" -> s.V = 0
      [] op = "BVS" -> s.V = 1

\* Handler op, applied to state s, went through branch(): branch() returns
\* 1 or 2, a handler that does not branch returns 0.
Takes(op, s, oper) == Apply(op, s, oper).r > 0

BranchPairs ==
    { <<"BEQ", "BNE">>, <<"BCC", "BCS">>, <<"BMI", "BPL">>, <<"BVC", "BVS">> }

\* C21: each conditional branch is taken exactly when its named condition
\* holds (BCC on C=0, BCS on C=1, BEQ on Z=1, BNE on Z=0, BMI on N=1, BPL on
\* N=0, BVC on V=0, BVS on V=1), so that on every flag state exactly one
\* branch of each complementary pair is taken.
C21_BranchConditions ==
    ret.call \in BranchNames =>
        /\ (ret.cycles > 0) <=> NamedCondition(ret.call, ret.pre)
        /\ \A p \in BranchPairs :
              Takes(p[1], ret.pre, ret.oper) # Takes(p[2], ret.pre, ret.oper)

\* C22: BIT with accumulator a and operand m in [0,255] sets Z = 1 exactly
\* when (a AND m) = 0, copies bit 7 of m into N and bit 6 of m into V, and
\* leaves A unchanged.
C22_BITFlags ==
    (ret.call = "BIT" /\ ret.pre.A \in Byte /\ ret.oper \in Byte) =>
        LET a == ret.pre.A
            m == ret.oper
        IN  /\ cpu.Z = Flag(BitAnd(a, m) = 0)
            /\ cpu.N = (m \div 128) % 2
            /\ cpu.V = (m \div 64) % 2
            /\ cpu.A = a

===========================================================================
